---- MODULE Spec2Model ----
(***************************************************************************)
(* A model of the httpcheck Checker (src/httpcheck.go) and of its          *)
(* ReadCloser adapter (src/unnamed/part_000).                              *)
(*                                                                         *)
(* Go strings and byte slices are sequences of one-character strings.     *)
(* A pointer that may be nil is a record with a field "nil".  A panic is  *)
(* not recovered anywhere in the repository, so it ends the test binary:  *)
(* it sets aborted, and no operation is enabled afterwards.                *)
(***************************************************************************)
EXTENDS Integers, Sequences, FiniteSets, TLC

\* request, response, cookies: the Checker's fields.
\* aborted:  a panic has ended the test binary.
\* last:     the last call on the Checker, its arguments and how it ended.
\* recorder: what the handler wrote in the most recent Check that reached it
\*           (the httptest recorder, a local of Check).
\* lastSet:  history; per cookie name, the value of the most recent completed
\*           execution's response that set it.
VARIABLES request, response, cookies, aborted, last, recorder, lastSet

vars == <<request, response, cookies, aborted, last, recorder, lastSet>>

(***************************************************************************)
(* Bounds of the model.                                                    *)
(***************************************************************************)
\* The most Set-Cookie values the handler puts on one response.
MaxSetCookies == 2
\* WithCookie is taken only while the request's Cookie header is at most
\* this long (AddCookie appends, so the header would grow without end).
MaxCookieLen == 4

(***************************************************************************)
(* Strings.                                                                *)
(***************************************************************************)
Empty == << >>

\* strings.Index(str, ch): the 0-based index of the first ch, or -1.
Index(str, ch) ==
    IF \E i \in 1..Len(str) : str[i] = ch
    THEN (CHOOSE i \in 1..Len(str) :
              str[i] = ch /\ \A j \in 1..(i - 1) : str[j] # ch) - 1
    ELSE -1

\* The Go slice expression str[lo:hi] (0-based, hi exclusive).
Slice(str, lo, hi) == SubSeq(str, lo + 1, hi)

\* strings.ToUpper on the method names the model uses.
ToUpper(m) ==
    CASE m = "get" -> "GET"
      [] m = "post" -> "POST"
      [] OTHER -> m

(***************************************************************************)
(* net/http headers: a map from key to the list of its values.             *)
(***************************************************************************)
NoHeader == [k \in {} |-> << >>]

\* http.Header.Get: the first value of key, "" when there is none.
HeaderGet(h, key) ==
    IF key \in DOMAIN h /\ Len(h[key]) > 0 THEN h[key][1] ELSE Empty

\* http.Header.Set: key gets the single value, replacing what it had.
HeaderSet(h, key, value) ==
    [k \in (DOMAIN h) \cup {key} |-> IF k = key THEN <<value>> ELSE h[k]]

(***************************************************************************)
(* Byte slices ([]byte): nil and empty are different values of length 0.   *)
(***************************************************************************)
NilBytes == [nil |-> TRUE, data |-> Empty]

Bytes(data) == [nil |-> FALSE, data |-> data]

\* []byte(text): the conversion of a string never yields nil.
BytesOfString(text) == Bytes(text)

\* string(b): nil converts to "".
StringOfBytes(b) == b.data

(***************************************************************************)
(* The assertion library (testify), as far as the Checker uses it.         *)
(***************************************************************************)
\* assert.Equal on two []byte values (ObjectsAreEqual): a nil slice equals
\* only a nil slice, two non-nil slices are compared byte for byte.
ObjectsAreEqual(exp, act) ==
    IF exp.nil \/ act.nil THEN exp.nil /\ act.nil ELSE exp.data = act.data

(***************************************************************************)
(* encoding/json and encoding/xml on the values the model marshals: the    *)
(* int 1, and a channel, which neither encoder supports.                   *)
(***************************************************************************)
Values == {"int1", "chan"}

Json1 == <<"1">>

Xml1 == <<"<", "i", "n", "t", ">", "1", "<", "/", "i", "n", "t", ">">>

jsonMarshal(value) ==
    IF value = "int1" THEN [err |-> FALSE, bytes |-> Bytes(Json1)]
    ELSE [err |-> TRUE, bytes |-> NilBytes]

xmlMarshal(value) ==
    IF value = "int1" THEN [err |-> FALSE, bytes |-> Bytes(Xml1)]
    ELSE [err |-> TRUE, bytes |-> NilBytes]

(***************************************************************************)
(* The ReadCloser adapter over the recorder's buffer.                      *)
(***************************************************************************)
\* The size of the buffer ReadAll hands to Read; any size reads the same.
ReadChunk == 2

NewReadCloser(rd) == [rd |-> rd]

\* Read(p) with len(p) = n: delegates to the buffer, which hands out its
\* next bytes and keeps the rest; eof once nothing is left.
Read(rc, n) ==
    LET k == IF Len(rc.rd) < n THEN Len(rc.rd) ELSE n IN
    [p   |-> SubSeq(rc.rd, 1, k),
     eof |-> Len(rc.rd) = 0,
     rc  |-> [rd |-> SubSeq(rc.rd, k + 1, Len(rc.rd))]]

\* ioutil.ReadAll: Read until eof; the bytes read (never a nil slice) and
\* the stream as it is left.
RECURSIVE ReadAllFrom(_, _)
ReadAllFrom(rc, acc) ==
    LET r == Read(rc, ReadChunk) IN
    IF r.eof THEN [body |-> Bytes(acc), rc |-> r.rc]
    ELSE ReadAllFrom(r.rc, acc \o r.p)

ReadAll(rc) == ReadAllFrom(rc, Empty)

(***************************************************************************)
(* Requests.                                                               *)
(***************************************************************************)
NoRequest == [nil |-> TRUE, Method |-> "", Header |-> NoHeader, Body |-> NilBytes]

\* target(method, path) inputs; "%zz" is a path url.Parse rejects.
Methods == {"get"}

Paths == {"/ping", "%zz"}

\* http.NewRequest(method, path, nil): the request, or nil and an error
\* when the path does not parse.
NewRequest(method, path) ==
    IF path = "%zz" THEN [err |-> TRUE, request |-> NoRequest]
    ELSE [err |-> FALSE,
          request |-> [nil |-> FALSE, Method |-> method,
                       Header |-> NoHeader, Body |-> NilBytes]]

\* The requests a caller hands to TestRequest: none, or one it built itself
\* that already carries a Cookie header.
CustomRequests ==
    {NoRequest,
     [nil |-> FALSE, Method |-> "POST",
      Header |-> HeaderSet(NoHeader, "Cookie", <<"c", "=", "3">>),
      Body |-> NilBytes]}

\* newClosingBuffer / newClosingBufferString: a closable stream over the
\* given bytes; a nil slice gives an empty stream.
newClosingBuffer(body) == Bytes(body.data)

\* (*http.Request).AddCookie for a cookie whose name and value need no
\* sanitizing: appends "name=value" to the Cookie header, after "; " when
\* the header already has a value.
AddCookie(req, name, value) ==
    LET s == name \o <<"=">> \o value
        c == HeaderGet(req.Header, "Cookie")
    IN  IF c # Empty
        THEN [req EXCEPT !.Header = HeaderSet(@, "Cookie", c \o <<";", " ">> \o s)]
        ELSE [req EXCEPT !.Header = HeaderSet(@, "Cookie", s)]

(***************************************************************************)
(* The handler under test: an opaque collaborator.  Each invocation writes *)
(* one of these recordings (status, headers, body).                        *)
(***************************************************************************)
\* Set-Cookie values: well-formed ones (two values of one name, a second
\* name whose value holds attribute text with an embedded '='), a value
\* whose '=' is its first byte, and a value without '='.
CookieStrs ==
    {<<"a", "=", "1">>, <<"a", "=", "2">>, <<"b", "=", "x", ";", "P", "=", "/">>,
     <<"=", "1">>, <<"a">>}

SetCookieLists(strs) == UNION {[1..n -> strs] : n \in 0..MaxSetCookies}

\* Responses that only set cookies: no Set-Cookie header at all, or one
\* with up to MaxSetCookies of the given values.
CookieResponses(strs) ==
    {[nil |-> FALSE, Code |-> 200, HeaderMap |-> h, Body |-> Empty] :
        h \in {NoHeader} \cup {[k \in {"Set-Cookie"} |-> l] : l \in SetCookieLists(strs)}}

Bodies == {Empty, Json1, Xml1}

\* Responses with a status and a body.
ContentResponses ==
    {[nil |-> FALSE, Code |-> c, HeaderMap |-> NoHeader, Body |-> b] :
        c \in {200, 404}, b \in Bodies}

\* What the handler of the general scenario answers: content, or one
\* cookie, well-formed or not.
HandlerResponses ==
    ContentResponses \cup CookieResponses({<<"a", "=", "1">>, <<"a">>})

\* What the handler of the session scenario answers.
SessionResponses == CookieResponses(CookieStrs)

NoRecorder == [nil |-> TRUE, Code |-> 0, HeaderMap |-> NoHeader, Body |-> Empty]

NoResponse ==
    [nil |-> TRUE, StatusCode |-> 0, Header |-> NoHeader,
     Body |-> NewReadCloser(Empty)]

(***************************************************************************)
(* The cookie jar.                                                         *)
(***************************************************************************)
NoCookies == [n \in {} |-> Empty]

\* Put as it would be if storing a cookie started a fresh jar.
PutAlone(jar, name, value) == [n \in {name} |-> value]

\* c.cookies[name] = value
Put(jar, name, value) ==
    [n \in (DOMAIN jar) \cup {name} |-> IF n = name THEN value ELSE jar[n]]

\* handleCookies' loop as it would be if a value without a name were
\* skipped instead of being fatal.
RECURSIVE handleCookiesSkipping(_, _, _)
handleCookiesSkipping(jar, header, i) ==
    IF i > Len(header) THEN [cookies |-> jar, panicked |-> FALSE, at |-> 0]
    ELSE LET str == header[i]
             ind == Index(str, "=")
         IN  IF ind > 0
             THEN handleCookiesSkipping(
                      Put(jar, Slice(str, 0, ind), Slice(str, ind + 1, Len(str))),
                      header, i + 1)
             ELSE handleCookiesSkipping(jar, header, i + 1)

\* handleCookies' loop from the i-th Set-Cookie value on: the jar as it is
\* left, whether the loop panicked, and at which value.
RECURSIVE handleCookiesFrom(_, _, _)
handleCookiesFrom(jar, header, i) ==
    IF i > Len(header) THEN [cookies |-> jar, panicked |-> FALSE, at |-> 0]
    ELSE LET str == header[i]
             ind == Index(str, "=")
         IN  IF ind > 0
             THEN handleCookiesFrom(
                      Put(jar, Slice(str, 0, ind), Slice(str, ind + 1, Len(str))),
                      header, i + 1)
             ELSE [cookies |-> jar, panicked |-> TRUE, at |-> i]

handleCookies(jar, r) ==
    IF "Set-Cookie" \in DOMAIN r.Header
    THEN handleCookiesFrom(jar, r.Header["Set-Cookie"], 1)
    ELSE [cookies |-> jar, panicked |-> FALSE, at |-> 0]

\* The orders in which Go may iterate over a map with these keys.
Orders(keys) ==
    {o \in [1..Cardinality(keys) -> keys] :
        \A i, j \in 1..Cardinality(keys) : i # j => o[i] # o[j]}

\* generateCookieString as it would be with "; " between the pairs and
\* nothing after the last.
RECURSIVE generateCookieStringJoined(_, _)
generateCookieStringJoined(jar, order) ==
    IF Len(order) = 0 THEN Empty
    ELSE Head(order) \o <<"=">> \o jar[Head(order)]
         \o (IF Len(order) = 1 THEN Empty ELSE <<";", " ">>)
         \o generateCookieStringJoined(jar, Tail(order))

\* generateCookieString, iterating over the jar in the given order.
RECURSIVE generateCookieString(_, _)
generateCookieString(jar, order) ==
    IF Len(order) = 0 THEN Empty
    ELSE Head(order) \o <<"=">> \o jar[Head(order)] \o <<";">>
         \o generateCookieString(jar, Tail(order))

(***************************************************************************)
(* The Checker.                                                            *)
(***************************************************************************)
Builders ==
    {"TestRequest", "Test", "WithHeader", "WithCookie", "WithJson", "WithXml",
     "WithBody", "WithString"}

Assertions ==
    {"HasHeader", "HasCookie", "HasStatus", "HasJson", "HasXml", "HasBody",
     "HasString"}

\* What the last call did: it returned without recording a failure against
\* the test context ("ok"), returned after recording one ("fail"), or
\* panicked ("panic").
Outcome(failed) == IF failed THEN "fail" ELSE "ok"

Returned(op, arg, failed) ==
    /\ last' = [op |-> op, arg |-> arg, result |-> Outcome(failed)]
    /\ aborted' = aborted

\* A nil pointer dereference or an explicit panic.
Panicked(op, arg) ==
    /\ last' = [op |-> op, arg |-> arg, result |-> "panic"]
    /\ aborted' = TRUE

\* New(t, handler)
Init ==
    /\ request = NoRequest
    /\ response = NoResponse
    /\ cookies = NoCookies
    /\ aborted = FALSE
    /\ last = [op |-> "New", arg |-> << >>, result |-> "ok"]
    /\ recorder = NoRecorder
    /\ lastSet = NoCookies

TestRequest(req) ==
    /\ ~aborted
    /\ request' = req
    /\ Returned("TestRequest", <<req.nil>>, req.nil)
    /\ UNCHANGED <<response, cookies, recorder, lastSet>>

\* Test as it would be if a new target dropped the previous response.
TestDroppingResponse(method, path) ==
    /\ ~aborted
    /\ LET r == NewRequest(ToUpper(method), path) IN
        /\ request' = r.request
        /\ Returned("Test", <<method, path>>, r.err)
    /\ response' = NoResponse
    /\ UNCHANGED <<cookies, recorder, lastSet>>

Test(method, path) ==
    /\ ~aborted
    /\ LET r == NewRequest(ToUpper(method), path) IN
        /\ request' = r.request
        /\ Returned("Test", <<method, path>>, r.err)
    /\ UNCHANGED <<response, cookies, recorder, lastSet>>

WithHeader(key, value) ==
    /\ ~aborted
    /\ IF request.nil
       THEN /\ Panicked("WithHeader", <<key, value>>)
            /\ UNCHANGED request
       ELSE /\ request' = [request EXCEPT !.Header = HeaderSet(@, key, value)]
            /\ Returned("WithHeader", <<key, value>>, FALSE)
    /\ UNCHANGED <<response, cookies, recorder, lastSet>>

WithCookie(key, value) ==
    /\ ~aborted
    /\ Len(HeaderGet(request.Header, "Cookie")) <= MaxCookieLen
    /\ IF request.nil
       THEN /\ Panicked("WithCookie", <<key, value>>)
            /\ UNCHANGED request
       ELSE /\ request' = AddCookie(request, key, value)
            /\ Returned("WithCookie", <<key, value>>, FALSE)
    /\ UNCHANGED <<response, cookies, recorder, lastSet>>

\* The body of WithBody, shared by the builders that end in it; failed is
\* what the caller's own assertion recorded before.
SetBody(op, arg, body, failed) ==
    /\ IF request.nil
       THEN /\ Panicked(op, arg)
            /\ UNCHANGED request
       ELSE /\ request' = [request EXCEPT !.Body = newClosingBuffer(body)]
            /\ Returned(op, arg, failed)
    /\ UNCHANGED <<response, cookies, recorder, lastSet>>

WithBody(body) ==
    /\ ~aborted
    /\ SetBody("WithBody", <<body>>, body, FALSE)

WithString(body) ==
    /\ ~aborted
    /\ SetBody("WithString", <<body>>, BytesOfString(body), FALSE)

WithJson(value) ==
    /\ ~aborted
    /\ LET m == jsonMarshal(value) IN SetBody("WithJson", <<value>>, m.bytes, m.err)

WithXml(value) ==
    /\ ~aborted
    /\ LET m == xmlMarshal(value) IN SetBody("WithXml", <<value>>, m.bytes, m.err)

HasHeader(key, expectedValue) ==
    /\ ~aborted
    /\ IF response.nil
       THEN Panicked("HasHeader", <<key, expectedValue>>)
       ELSE Returned("HasHeader", <<key, expectedValue>>,
                     expectedValue # HeaderGet(response.Header, key))
    /\ UNCHANGED <<request, response, cookies, recorder, lastSet>>

HasCookie(key, expectedValue) ==
    /\ ~aborted
    /\ Returned("HasCookie", <<key, expectedValue>>,
                ~(key \in DOMAIN cookies /\ expectedValue = cookies[key]))
    /\ UNCHANGED <<request, response, cookies, recorder, lastSet>>

HasStatus(status) ==
    /\ ~aborted
    /\ IF response.nil
       THEN Panicked("HasStatus", <<status>>)
       ELSE Returned("HasStatus", <<status>>, status # response.StatusCode)
    /\ UNCHANGED <<request, response, cookies, recorder, lastSet>>

\* The body of HasBody, shared with HasString: ReadAll on the response's
\* body, then assert.Equal on the two byte slices.
CompareBody(op, arg, body) ==
    /\ IF response.nil
       THEN /\ Panicked(op, arg)
            /\ UNCHANGED response
       ELSE LET r == ReadAll(response.Body) IN
            /\ response' = [response EXCEPT !.Body = r.rc]
            /\ Returned(op, arg, ~ObjectsAreEqual(body, r.body))
    /\ UNCHANGED <<request, cookies, recorder, lastSet>>

HasBody(body) ==
    /\ ~aborted
    /\ CompareBody("HasBody", <<body>>, body)

HasString(body) ==
    /\ ~aborted
    /\ CompareBody("HasString", <<body>>, BytesOfString(body))

\* The body of HasJson and HasXml: ReadAll, marshal the value, then
\* assert.Nil on the error and assert.Equal on the two strings.
CompareMarshalled(op, arg, m) ==
    /\ IF response.nil
       THEN /\ Panicked(op, arg)
            /\ UNCHANGED response
       ELSE LET r == ReadAll(response.Body) IN
            /\ response' = [response EXCEPT !.Body = r.rc]
            /\ Returned(op, arg,
                        m.err \/ StringOfBytes(m.bytes) # StringOfBytes(r.body))
    /\ UNCHANGED <<request, cookies, recorder, lastSet>>

HasJson(value) ==
    /\ ~aborted
    /\ CompareMarshalled("HasJson", <<value>>, jsonMarshal(value))

HasXml(value) ==
    /\ ~aborted
    /\ CompareMarshalled("HasXml", <<value>>, xmlMarshal(value))

\* History: for every cookie name, the value given by the most recent
\* completed execution's response that set it.  A value sets the name in
\* front of its first '=' to what follows that '='.
HasEq(str) == \E k \in 1..Len(str) : str[k] = "="

FirstEq(str) == CHOOSE k \in 1..Len(str) : str[k] = "=" /\ \A j \in 1..(k - 1) : str[j] # "="

CookieNameOf(str) == SubSeq(str, 1, FirstEq(str) - 1)

CookieValueOf(str) == SubSeq(str, FirstEq(str) + 1, Len(str))

SetCookieValues(h) == IF "Set-Cookie" \in DOMAIN h THEN h["Set-Cookie"] ELSE << >>

Recorded(history, h) ==
    LET l == SetCookieValues(h)
        set == {i \in 1..Len(l) : HasEq(l[i])}
        Sets(n) == {i \in set : CookieNameOf(l[i]) = n}
        LastOf(n) == CHOOSE i \in Sets(n) : \A j \in Sets(n) : j <= i
    IN  [n \in (DOMAIN history) \cup {CookieNameOf(l[i]) : i \in set} |->
            IF Sets(n) # {} THEN CookieValueOf(l[LastOf(n)]) ELSE history[n]]

\* Check(): order is the order in which Go iterates over the jar, rec what
\* the handler writes to the recorder.
Check(order, rec) ==
    /\ ~aborted
    /\ IF request.nil
       THEN /\ Panicked("Check", <<0>>)
            /\ UNCHANGED <<request, response, cookies, recorder, lastSet>>
       ELSE LET str  == generateCookieString(cookies, order)
                resp == [nil |-> FALSE, StatusCode |-> rec.Code,
                         Header |-> rec.HeaderMap,
                         Body |-> NewReadCloser(rec.Body)]
                hc   == handleCookies(cookies, resp)
            IN  /\ request' = [request EXCEPT !.Header = HeaderSet(@, "Cookie", str)]
                /\ recorder' = rec
                /\ cookies' = hc.cookies
                /\ IF hc.panicked
                   THEN /\ Panicked("Check", <<hc.at>>)
                        /\ UNCHANGED <<response, lastSet>>
                   ELSE /\ Returned("Check", <<0>>, FALSE)
                        /\ response' = resp
                        /\ lastSet' = Recorded(lastSet, rec.HeaderMap)

\* Cb(cb): hands the response to the callback, which only looks at it.
Cb ==
    /\ ~aborted
    /\ last' = [op |-> "Cb", arg |-> << >>, result |-> "ok"]
    /\ UNCHANGED <<request, response, cookies, aborted, recorder, lastSet>>

HeaderArgs == {<<"o", "k">>}

BodyArgs == {NilBytes} \cup {Bytes(b) : b \in Bodies}

StatusArgs == {200, 404}

\* The general scenario: every operation of the Checker.
Next ==
    \/ \E req \in CustomRequests : TestRequest(req)
    \/ \E method \in Methods, path \in Paths : Test(method, path)
    \/ \E value \in HeaderArgs : WithHeader("X-Test", value)
    \/ WithCookie(<<"c">>, <<"3">>)
    \/ \E body \in {NilBytes, Bytes(Json1)} : WithBody(body)
    \/ WithString(Json1)
    \/ \E value \in Values : WithJson(value)
    \/ \E value \in Values : WithXml(value)
    \/ \E order \in Orders(DOMAIN cookies), rec \in HandlerResponses : Check(order, rec)
    \/ \E value \in {Empty, <<"a", "=", "1">>} : HasHeader("Set-Cookie", value)
    \/ HasCookie(<<"a">>, <<"1">>)
    \/ \E status \in StatusArgs : HasStatus(status)
    \/ \E body \in BodyArgs : HasBody(body)
    \/ \E body \in {Empty, Json1} : HasString(body)
    \/ \E value \in Values : HasJson(value)
    \/ \E value \in Values : HasXml(value)
    \/ Cb

Spec == Init /\ [][Next]_vars

\* The session scenario: a handler that sets cookies, and the operations
\* that touch the request's cookies and the jar.
NextSession ==
    \/ \E req \in CustomRequests : TestRequest(req)
    \/ \E method \in Methods, path \in Paths : Test(method, path)
    \/ \E key \in {<<"a">>, <<"c">>} : WithCookie(key, <<"3">>)
    \/ \E order \in Orders(DOMAIN cookies), rec \in SessionResponses : Check(order, rec)
    \/ \E value \in {<<"1">>, <<"2">>} : HasCookie(<<"a">>, value)

SpecSession == Init /\ [][NextSession]_vars

(***************************************************************************)
(* Vocabulary of the properties.                                           *)
(***************************************************************************)
\* sub occurs in str.
Contains(str, sub) ==
    \E i \in 1..(Len(str) - Len(sub) + 1) : SubSeq(str, i, i + Len(sub) - 1) = sub

\* The Cookie header of the request; after a Check that reached the
\* handler, the one the handler received.
CookieHeader(req) == HeaderGet(req.Header, "Cookie")

\* The handler ran in the step that led here.
HandlerRan == last.op = "Check" /\ ~request.nil

PairText(jar, n) == n \o <<"=">> \o jar[n] \o <<";">>

\* The pairs of the first k names of order, one after the other.
RECURSIVE JoinPairs(_, _, _)
JoinPairs(jar, order, k) ==
    IF k = 0 THEN Empty ELSE JoinPairs(jar, order, k - 1) \o PairText(jar, order[k])

\* The snapshot Check builds from what the recorder holds.
Snapshot(rec) ==
    [nil |-> FALSE, StatusCode |-> rec.Code, Header |-> rec.HeaderMap,
     Body |-> [rd |-> rec.Body]]

(***************************************************************************)
(* C1: cookie persistence.  In every execution that reaches the handler,   *)
(* the Cookie header the handler receives contains name=value for every    *)
(* name an earlier response has set, with the value of the most recent     *)
(* such response; and no step removes an entry of the jar: an entry only   *)
(* changes in an execution whose response sets that name.                  *)
(***************************************************************************)
C1_CookiePersistence ==
    [][/\ (last'.op = "Check" /\ ~request.nil) =>
              \A n \in DOMAIN lastSet :
                  Contains(CookieHeader(request'), n \o <<"=">> \o lastSet[n])
       /\ \A n \in DOMAIN cookies :
              /\ n \in DOMAIN cookies'
              /\ cookies'[n] # cookies[n] =>
                     /\ last'.op = "Check"
                     /\ \E i \in 1..Len(SetCookieValues(recorder'.HeaderMap)) :
                            LET str == SetCookieValues(recorder'.HeaderMap)[i] IN
                            /\ HasEq(str)
                            /\ CookieNameOf(str) = n
                            /\ CookieValueOf(str) = cookies'[n]]_vars

\* The handler receives, in an execution whose response sets nothing, the
\* two cookies earlier responses have set.
C1_Witness ==
    /\ HandlerRan
    /\ last.result = "ok"
    /\ "Set-Cookie" \notin DOMAIN recorder.HeaderMap
    /\ Contains(CookieHeader(request), <<"a", "=", "2">>)
    /\ Contains(CookieHeader(request), <<"b", "=", "x", ";", "P", "=", "/">>)

(***************************************************************************)
(* C2: withCookie(key, value) followed by execute() hands the handler a    *)
(* request that carries key=value, whatever the jar holds, and withCookie  *)
(* leaves the jar as it is.                                                *)
(***************************************************************************)
C2_WithCookieReachesHandler ==
    [][/\ (last.op = "WithCookie" /\ last.result = "ok" /\ last'.op = "Check") =>
              Contains(CookieHeader(request'), last.arg[1] \o <<"=">> \o last.arg[2])
       /\ last'.op = "WithCookie" => cookies' = cookies]_vars

(***************************************************************************)
(* C3: no assertion changes the captured response, and hasBody with the   *)
(* same bytes twice in a row has the same outcome both times.              *)
(***************************************************************************)
C3_AssertionsReadOnly ==
    [][/\ last'.op \in Assertions => response' = response
       /\ (last.op = "HasBody" /\ last'.op = "HasBody" /\ last'.arg = last.arg) =>
              last'.result = last.result]_vars

(***************************************************************************)
(* C4: a response with a Set-Cookie value that has no '=' makes the        *)
(* execution that receives it panic, whatever else the response carries    *)
(* and whatever the jar held.                                              *)
(***************************************************************************)
C4_MalformedCookieFatal ==
    (/\ ~recorder.nil
     /\ \E i \in 1..Len(SetCookieValues(recorder.HeaderMap)) :
            ~HasEq(SetCookieValues(recorder.HeaderMap)[i]))
    => (aborted /\ last.op = "Check" /\ last.result = "panic")

\* The execution aborted on a response whose first value is well-formed and
\* whose second has no '=', with a cookie of an earlier response in the jar.
C4_Witness ==
    /\ aborted
    /\ last.op = "Check"
    /\ SetCookieValues(recorder.HeaderMap) = <<<<"a", "=", "1">>, <<"a">>>>
    /\ <<"b">> \in DOMAIN cookies

(***************************************************************************)
(* C5: for every Set-Cookie value with at least one '=', the execution     *)
(* does not abort on it and stores jar[name] = rest (name: what precedes   *)
(* the first '=', rest: everything after it), the last value of a name     *)
(* within one response winning.                                            *)
(***************************************************************************)
C5_SetCookieParsing ==
    HandlerRan =>
        LET l == SetCookieValues(recorder.HeaderMap)
            reached == IF last.result = "panic" THEN last.arg[1] ELSE Len(l)
        IN  \A i \in 1..reached :
                HasEq(l[i]) =>
                    /\ ~(last.result = "panic" /\ last.arg[1] = i)
                    /\ CookieNameOf(l[i]) \in DOMAIN cookies
                    /\ (\A j \in (i + 1)..reached :
                            HasEq(l[j]) => CookieNameOf(l[j]) # CookieNameOf(l[i]))
                       => cookies[CookieNameOf(l[i])] = CookieValueOf(l[i])

(***************************************************************************)
(* C6: an execution that reaches the handler overwrites the request's      *)
(* Cookie header with exactly one value: the "name=value;" pairs of the    *)
(* jar as it stood before the execution, each once, in some order.         *)
(***************************************************************************)
C6_CookieHeader ==
    [][(last'.op = "Check" /\ ~request.nil) =>
           /\ "Cookie" \in DOMAIN request'.Header
           /\ \E order \in Orders(DOMAIN cookies) :
                  request'.Header["Cookie"] =
                      <<JoinPairs(cookies, order, Cardinality(DOMAIN cookies))>>]_vars

\* The handler received the two pairs of the jar, a=2 among them, while its
\* response sets a=1, which the jar holds only now.
C6_Witness ==
    /\ HandlerRan
    /\ last.result = "ok"
    /\ CookieHeader(request) =
           <<"a", "=", "2", ";", "b", "=", "x", ";", "P", "=", "/", ";">>
    /\ cookies[<<"a">>] = <<"1">>

(***************************************************************************)
(* C7: no assertion call ever aborts, one made before any execution        *)
(* included.                                                               *)
(***************************************************************************)
C7_AssertionsNeverAbort == ~(last.op \in Assertions /\ last.result = "panic")

(***************************************************************************)
(* C8: a failing builder records a failure, the calls chained after it     *)
(* (withHeader, withCookie, withBody, execute) complete without aborting,  *)
(* an execution aborting only on a malformed cookie; and useCustomRequest  *)
(* with an absent request leaves the current request in place.             *)
(***************************************************************************)
C8_BuilderErrorsNonFatal ==
    [][/\ (last'.op = "Test" /\ last'.arg[2] = "%zz") => last'.result = "fail"
       /\ (last'.op = "TestRequest" /\ last'.arg[1]) =>
              (last'.result = "fail" /\ request' = request)
       /\ (last'.op \in {"WithJson", "WithXml"} /\ last'.arg[1] = "chan" /\ ~request.nil) =>
              last'.result = "fail"
       /\ (/\ last.op \in Builders
           /\ last.result = "fail"
           /\ last'.op \in {"WithHeader", "WithCookie", "WithBody", "Check"}
           /\ last'.result = "panic")
          => (last'.op = "Check" /\ last'.arg[1] > 0)]_vars

(***************************************************************************)
(* C9: hasBody(bytes) as the first body assertion after an execution       *)
(* records a failure exactly if bytes differs from the body the handler    *)
(* wrote, a zero-length expectation against a zero-length body included;   *)
(* hasString(text) does as hasBody on the bytes of text.                   *)
(***************************************************************************)
C9_HasBodyExact ==
    [][(/\ ~response.nil
        /\ response.Body.rd = recorder.Body
        /\ last'.op \in {"HasBody", "HasString"}) =>
           LET expected ==
                   IF last'.op = "HasBody" THEN last'.arg[1].data ELSE last'.arg[1]
           IN  (last'.result = "fail") <=> (expected # recorder.Body)]_vars

(***************************************************************************)
(* C10: the response is absent at first and appears only when an           *)
(* execution completes; from then on it is the snapshot of the most        *)
(* recently completed execution: a completed execution installs the        *)
(* snapshot of what the handler wrote, an aborted one and every builder    *)
(* leave the response untouched, and no other call changes its presence,   *)
(* status or headers.                                                      *)
(***************************************************************************)
C10_ResponseLifecycle ==
    /\ response.nil
    /\ [][/\ last'.op \in Builders => response' = response
          /\ (last'.op = "Check" /\ last'.result = "panic") => response' = response
          /\ (last'.op = "Check" /\ last'.result = "ok") =>
                 response' = Snapshot(recorder')
          /\ last'.op # "Check" =>
                 /\ response'.nil = response.nil
                 /\ response'.StatusCode = response.StatusCode
                 /\ response'.Header = response.Header
          /\ ~response.nil => ~response'.nil]_vars

\* After a new target the response of the previous execution is in place.
C10_Witness ==
    /\ last.op = "Test"
    /\ ~response.nil
    /\ response.StatusCode = 404
    /\ response.Body.rd = Xml1

====
